---- MODULE Spec2Model ----
(***************************************************************************)
(* RHI_IndexBuffer, Vulkan back end (Runtime/RHI/Vulkan/                   *)
(* Vulkan_IndexBuffer.cpp): the life cycle of one index buffer and the     *)
(* calls it makes to the device (allocator, queues, immediate command      *)
(* buffer).                                                                *)
(*                                                                         *)
(* A handle is a natural number, NULL is the null pointer.  The buffer     *)
(* created by one vulkan_utility::buffer::create call and its VmaAllocation*)
(* carry the same number: the number names the (buffer, allocation) pair.  *)
(* Every handler is one action; the device calls it makes are appended, in *)
(* program order, to log, each with the device state it was made in.       *)
(***************************************************************************)
EXTENDS Integers, Sequences, FiniteSets, TLC

\* Bounds of the model.
MaxHandles == 3     \* buffers the device hands out in one behaviour
MaxPtr     == 2     \* distinct host addresses vmaMapMemory may return
MaxSize    == 1     \* sizes m_object_size_gpu ranges over

NULL == 0

Handles  == 1..MaxHandles
Pointers == 1..MaxPtr
Sizes    == 1..MaxSize

VARIABLES
    \* fields of RHI_IndexBuffer
    m_resource,             \* void*  : the VkBuffer
    m_allocation,           \* void*  : the VmaAllocation
    m_mapped,               \* void*  : host pointer of the active mapping
    m_is_mappable,          \* bool
    m_persistent_mapping,   \* bool
    m_object_size_gpu,      \* uint64_t
    \* the device
    live,                   \* buffers (with their allocations) that exist
    freed,                  \* buffers that were destroyed
    mapCount,               \* allocation -> outstanding vmaMapMemory calls
    populated,              \* buffers whose memory holds the index data
    bufInfo,                \* live buffer -> the usage and memory it was created with
    pending,                \* submitted queue work has not completed yet
    nextId,                 \* next handle the allocator hands out
    \* observation of the last call into the object
    lastOp,                 \* name of the handler that ran last
    retBool,                \* its result, when it returns bool
    retPtr,                 \* its result, when it returns void*
    log,                    \* the device calls it made, in order
    pre,                    \* the fields and device state it started from
    crashed                 \* the process has aborted

vars == << m_resource, m_allocation, m_mapped, m_is_mappable,
           m_persistent_mapping, m_object_size_gpu,
           live, freed, mapCount, populated, bufInfo, pending, nextId,
           lastOp, retBool, retPtr, log, pre, crashed >>

----------------------------------------------------------------------------
\* The state a handler works on: the object's fields, the device, the open
\* immediate command buffer (recorded copies not yet executed) and the log.
World ==
    [ m_resource |-> m_resource, m_allocation |-> m_allocation,
      m_mapped |-> m_mapped, m_is_mappable |-> m_is_mappable,
      m_persistent_mapping |-> m_persistent_mapping,
      m_object_size_gpu |-> m_object_size_gpu,
      live |-> live, freed |-> freed, mapCount |-> mapCount,
      populated |-> populated, bufInfo |-> bufInfo,
      pending |-> pending, nextId |-> nextId,
      cmdOpen |-> FALSE, recorded |-> {}, crashed |-> FALSE,
      log |-> << >> ]

\* The device may still touch buffer h: queue work is outstanding, or a copy
\* recorded in the immediate command buffer has not been executed.
Busy(w, h) ==
    \/ w.pending
    \/ \E c \in w.recorded : c.src = h \/ c.dst = h

\* One entry of the log.
Ev(w, op, h, src, size, usage, props) ==
    [ op |-> op, h |-> h, src |-> src, size |-> size,
      usage |-> usage, props |-> props,
      busy  |-> Busy(w, h),
      stale |-> (h # NULL /\ h \notin w.live),
      maps  |-> IF h \in Handles THEN w.mapCount[h] ELSE 0,
      ok    |-> TRUE ]

\* The entry of a call that can fail, with its result.
EvRes(w, op, h, src, size, ok) ==
    [Ev(w, op, h, src, size, {}, {}) EXCEPT !.ok = ok]

\* What the device knows of a buffer that does not exist.
NoInfo == [usage |-> {}, props |-> {}]

Logged(w, e) == [w EXCEPT !.log = Append(w.log, e)]

----------------------------------------------------------------------------
\* The device primitives the handlers call.  A call made after the process
\* has aborted does nothing.  A call that passes an allocation the device
\* has already freed is a use after free: it either aborts the process or
\* goes on without touching the device state, as the input ub says.

UBOutcomes == {"crash", "proceed"}

Crash(w) == [w EXCEPT !.crashed = TRUE]

\* m_rhi_device->QueueWaitAll(): blocks until every queue is idle.
QueueWaitAll(w) ==
    IF w.crashed THEN w
    ELSE [Logged(w, Ev(w, "QueueWaitAll", NULL, NULL, 0, {}, {}))
             EXCEPT !.pending = FALSE]

\* vmaMapMemory(allocator, a, &out): [w, ok, ptr].
vmaMapMemory(w, a, ok, p, ub) ==
    IF w.crashed THEN [w |-> w, ok |-> FALSE, ptr |-> NULL]
    ELSE LET w1 == Logged(w, EvRes(w, "vmaMapMemory", a, NULL, 0,
                                   ok /\ ~(a \notin w.live /\ ub = "crash")))
         IN IF a \notin w.live
            THEN IF ub = "crash"
                 THEN [w |-> Crash(w1), ok |-> FALSE, ptr |-> NULL]
                 ELSE [w |-> w1, ok |-> ok, ptr |-> IF ok THEN p ELSE NULL]
            ELSE IF ok
                 THEN [w   |-> [w1 EXCEPT !.mapCount[a] = @ + 1],
                       ok  |-> TRUE, ptr |-> p]
                 ELSE [w |-> w1, ok |-> FALSE, ptr |-> NULL]

\* vmaUnmapMemory(allocator, a).
vmaUnmapMemory(w, a, ub) ==
    IF w.crashed THEN w
    ELSE LET w1 == Logged(w, Ev(w, "vmaUnmapMemory", a, NULL, 0, {}, {}))
         IN IF a \notin w.live
            THEN IF ub = "crash" THEN Crash(w1) ELSE w1
            ELSE IF w.mapCount[a] > 0
                 THEN [w1 EXCEPT !.mapCount[a] = @ - 1]
                 ELSE w1

\* vmaFlushAllocation(allocator, a, offset, size): [w, ok].
vmaFlushAllocation(w, a, offset, size, ok, ub) ==
    IF w.crashed THEN [w |-> w, ok |-> FALSE]
    ELSE LET w1 == Logged(w, EvRes(w, "vmaFlushAllocation", a, offset, size,
                                   ok /\ ~(a \notin w.live /\ ub = "crash")))
         IN IF a \notin w.live /\ ub = "crash"
            THEN [w |-> Crash(w1), ok |-> FALSE]
            ELSE [w |-> w1, ok |-> ok]

\* vulkan_utility::buffer::create(buffer&, size, usage, flags, data):
\* [w, buffer, allocation].  On success the device hands out a new buffer
\* with its allocation and, when data is given, fills it; on failure the
\* allocation returned and the buffer are null.
buffer_create(w, size, usage, props, data, ok) ==
    IF w.crashed THEN [w |-> w, buffer |-> NULL, allocation |-> NULL]
    ELSE IF ok
         THEN LET id == w.nextId
                  w1 == [w EXCEPT !.live = @ \cup {id},
                                  !.nextId = @ + 1,
                                  !.populated = IF data # NULL THEN @ \cup {id} ELSE @,
                                  !.bufInfo[id] = [usage |-> usage, props |-> props]]
              IN [w |-> Logged(w1, Ev(w1, "buffer_create", id, data, size, usage, props)),
                  buffer |-> id, allocation |-> id]
         ELSE [w |-> Logged(w, [Ev(w, "buffer_create", NULL, data, size, usage, props)
                                   EXCEPT !.ok = FALSE]),
               buffer |-> NULL, allocation |-> NULL]

\* vulkan_utility::buffer::destroy(buffer&): [w, buffer].  Nothing for a null
\* buffer; otherwise the buffer and its allocation are freed together and
\* the caller's handle is set to null.
buffer_destroy(w, buffer) ==
    IF w.crashed \/ buffer = NULL THEN [w |-> w, buffer |-> buffer]
    ELSE LET w1 == Logged(w, Ev(w, "vmaDestroyBuffer", buffer, NULL, 0, {}, {}))
         IN [w |-> [w1 EXCEPT !.live = @ \ {buffer},
                              !.freed = @ \cup {buffer},
                              !.populated = @ \ {buffer},
                              !.bufInfo = [h \in Handles |->
                                              IF h = buffer THEN NoInfo ELSE @[h]]],
             buffer |-> NULL]

\* vulkan_utility::command_buffer_immediate::begin(RHI_Queue_Type::Copy).
command_buffer_immediate_begin(w) ==
    IF w.crashed THEN w
    ELSE [Logged(w, Ev(w, "begin", NULL, NULL, 0, {}, {}))
             EXCEPT !.cmdOpen = TRUE, !.recorded = {}]

\* vkCmdCopyBuffer(cmd, src, dst, 1, &region): recorded, not yet executed.
vkCmdCopyBuffer(w, src, dst, size) ==
    IF w.crashed THEN w
    ELSE [Logged(w, Ev(w, "vkCmdCopyBuffer", dst, src, size, {}, {}))
             EXCEPT !.recorded = @ \cup {[src |-> src, dst |-> dst, size |-> size]}]

\* vulkan_utility::command_buffer_immediate::end(RHI_Queue_Type::Copy):
\* submits the recording and blocks until the queue has executed it.
command_buffer_immediate_end(w) ==
    IF w.crashed THEN w
    ELSE [Logged(w, Ev(w, "end", NULL, NULL, 0, {}, {}))
             EXCEPT !.cmdOpen = FALSE, !.recorded = {},
                    !.populated = @ \cup {c.dst : c \in
                                     {r \in w.recorded : r.src \in w.populated}}]

\* vulkan_utility::debug::set_name(buffer, name).
set_name(w, buffer) ==
    IF w.crashed THEN w
    ELSE Logged(w, Ev(w, "set_name", buffer, NULL, 0, {}, {}))

----------------------------------------------------------------------------
\* The handlers of RHI_IndexBuffer, as functions of the world they run in.
\* Inputs: what the device answers (ok*, p) and what a use after free does
\* (ub).

\* _destroy with the wait for the queues moved behind the free.
_destroy_WaitLast(w, ub) ==
    LET w2 == IF w.m_mapped # NULL
              THEN [vmaUnmapMemory(w, w.m_allocation, ub)
                       EXCEPT !.m_mapped = NULL]
              ELSE w
        d  == buffer_destroy(w2, w2.m_resource)
    IN QueueWaitAll([d.w EXCEPT !.m_resource = d.buffer])

\* _destroy without the unmap block.
_destroy_KeepsMapping(w, ub) ==
    LET w1 == QueueWaitAll(w)
        d  == buffer_destroy(w1, w1.m_resource)
    IN [d.w EXCEPT !.m_resource = d.buffer]

\* _destroy that unmaps without testing m_mapped.
_destroy_AlwaysUnmaps(w, ub) ==
    LET w1 == QueueWaitAll(w)
        w2 == [vmaUnmapMemory(w1, w1.m_allocation, ub) EXCEPT !.m_mapped = NULL]
        d  == buffer_destroy(w2, w2.m_resource)
    IN [d.w EXCEPT !.m_resource = d.buffer]

\* _destroy that frees the buffer before it releases the mapping.
_destroy_FreeBeforeUnmap(w, ub) ==
    LET w1 == QueueWaitAll(w)
        d  == buffer_destroy(w1, w1.m_resource)
        w2 == [d.w EXCEPT !.m_resource = d.buffer]
    IN IF w2.m_mapped # NULL
       THEN [vmaUnmapMemory(w2, w2.m_allocation, ub) EXCEPT !.m_mapped = NULL]
       ELSE w2

\* void RHI_IndexBuffer::_destroy()
_destroy(w, ub) ==
    LET w1 == QueueWaitAll(w)
        w2 == IF w1.m_mapped # NULL
              THEN [vmaUnmapMemory(w1, w1.m_allocation, ub)
                       EXCEPT !.m_mapped = NULL]
              ELSE w1
        d  == buffer_destroy(w2, w2.m_resource)
    IN [d.w EXCEPT !.m_resource = d.buffer]

\* The staged branch with the staging buffer destroyed before the recorded
\* copy is submitted.
_create_staged_EarlyFree(w, indices, okStaging, okDest) ==
    LET s  == buffer_create(w, w.m_object_size_gpu, {"TRANSFER_SRC"},
                            {"HOST_VISIBLE", "HOST_COHERENT"}, indices, okStaging)
    IN IF s.allocation = NULL
       THEN [w |-> s.w, ret |-> FALSE]
       ELSE LET c  == buffer_create(s.w, w.m_object_size_gpu,
                                    {"TRANSFER_DST", "INDEX_BUFFER"},
                                    {"DEVICE_LOCAL"}, NULL, okDest)
                w1 == [c.w EXCEPT !.m_resource = c.buffer]
            IN IF c.allocation = NULL
               THEN [w |-> w1, ret |-> FALSE]
               ELSE LET w2 == command_buffer_immediate_begin(w1)
                        w3 == vkCmdCopyBuffer(w2, s.buffer, w2.m_resource,
                                              w2.m_object_size_gpu)
                        w4 == buffer_destroy(w3, s.buffer).w
                        w5 == command_buffer_immediate_end(w4)
                    IN [w   |-> [w5 EXCEPT !.m_allocation = c.allocation],
                        ret |-> TRUE]

\* The staged branch of _create, after _destroy: [w, ret].
_create_staged(w, indices, okStaging, okDest) ==
    LET s  == buffer_create(w, w.m_object_size_gpu, {"TRANSFER_SRC"},
                            {"HOST_VISIBLE", "HOST_COHERENT"}, indices, okStaging)
    IN IF s.allocation = NULL
       THEN [w |-> s.w, ret |-> FALSE]
       ELSE LET c  == buffer_create(s.w, w.m_object_size_gpu,
                                    {"TRANSFER_DST", "INDEX_BUFFER"},
                                    {"DEVICE_LOCAL"}, NULL, okDest)
                w1 == [c.w EXCEPT !.m_resource = c.buffer]
            IN IF c.allocation = NULL
               THEN [w |-> w1, ret |-> FALSE]
               ELSE LET w2 == command_buffer_immediate_begin(w1)
                        w3 == vkCmdCopyBuffer(w2, s.buffer, w2.m_resource,
                                              w2.m_object_size_gpu)
                        w4 == command_buffer_immediate_end(w3)
                        w5 == buffer_destroy(w4, s.buffer).w
                    IN [w   |-> [w5 EXCEPT !.m_allocation = c.allocation],
                        ret |-> TRUE]

\* The mappable branch with the test of m_persistent_mapping inverted.
_create_mappable_CoherentIfPersistent(w, ok) ==
    LET flags == {"HOST_VISIBLE"} \cup
                 (IF w.m_persistent_mapping THEN {"HOST_COHERENT"} ELSE {})
        c  == buffer_create(w, w.m_object_size_gpu, {"INDEX_BUFFER"},
                            flags, NULL, ok)
        w1 == [c.w EXCEPT !.m_resource = c.buffer]
    IN IF c.allocation = NULL
       THEN [w |-> w1, ret |-> FALSE]
       ELSE [w |-> [w1 EXCEPT !.m_allocation = c.allocation], ret |-> TRUE]

\* The mappable branch of _create, after _destroy: [w, ret].
_create_mappable(w, ok) ==
    LET flags == {"HOST_VISIBLE"} \cup
                 (IF ~w.m_persistent_mapping THEN {"HOST_COHERENT"} ELSE {})
        c  == buffer_create(w, w.m_object_size_gpu, {"INDEX_BUFFER"},
                            flags, NULL, ok)
        w1 == [c.w EXCEPT !.m_resource = c.buffer]
    IN IF c.allocation = NULL
       THEN [w |-> w1, ret |-> FALSE]
       ELSE [w |-> [w1 EXCEPT !.m_allocation = c.allocation], ret |-> TRUE]

\* _create that picks the branch from indices but leaves m_is_mappable as
\* it was.
_create_KeepsMappable(w, indices, ok1, ok2, ub) ==
    LET w1 == _destroy(w, ub)
        r  == IF indices = NULL
              THEN _create_mappable(w1, ok1)
              ELSE _create_staged(w1, indices, ok1, ok2)
    IN IF r.ret
       THEN [w |-> set_name(r.w, r.w.m_resource), ret |-> TRUE]
       ELSE r

\* _create that does not destroy the previous buffer.
_create_NoDestroy(w, indices, ok1, ok2, ub) ==
    LET w1 == [w EXCEPT !.m_is_mappable = (indices = NULL)]
        r  == IF w1.m_is_mappable
              THEN _create_mappable(w1, ok1)
              ELSE _create_staged(w1, indices, ok1, ok2)
    IN IF r.ret
       THEN [w |-> set_name(r.w, r.w.m_resource), ret |-> TRUE]
       ELSE r

\* bool RHI_IndexBuffer::_create(const void* indices): [w, ret].
_create(w, indices, ok1, ok2, ub) ==
    LET w1 == [_destroy(w, ub) EXCEPT !.m_is_mappable = (indices = NULL)]
        r  == IF w1.m_is_mappable
              THEN _create_mappable(w1, ok1)
              ELSE _create_staged(w1, indices, ok1, ok2)
    IN IF r.ret
       THEN [w |-> set_name(r.w, r.w.m_resource), ret |-> TRUE]
       ELSE r

\* Map without the test of m_is_mappable.
Map_NoMappableCheck(w, ok, p, ub) ==
    IF w.m_allocation = NULL
    THEN [w |-> Crash(w), ret |-> NULL]
    ELSE IF w.m_mapped = NULL
         THEN LET m == vmaMapMemory(w, w.m_allocation, ok, p, ub)
              IN IF ~m.ok
                 THEN [w |-> m.w, ret |-> NULL]
                 ELSE [w |-> [m.w EXCEPT !.m_mapped = m.ptr], ret |-> m.ptr]
         ELSE [w |-> w, ret |-> w.m_mapped]

\* Map without the test of m_mapped: every call maps again.
Map_AlwaysMaps(w, ok, p, ub) ==
    IF ~w.m_is_mappable
    THEN [w |-> w, ret |-> NULL]
    ELSE IF w.m_allocation = NULL
    THEN [w |-> Crash(w), ret |-> NULL]
    ELSE LET m == vmaMapMemory(w, w.m_allocation, ok, p, ub)
         IN IF ~m.ok
            THEN [w |-> m.w, ret |-> NULL]
            ELSE [w |-> [m.w EXCEPT !.m_mapped = m.ptr], ret |-> m.ptr]

\* Map that stores the address before it looks at the result of the call.
Map_StoresPointerOnFailure(w, ok, p, ub) ==
    IF ~w.m_is_mappable
    THEN [w |-> w, ret |-> NULL]
    ELSE IF w.m_allocation = NULL
    THEN [w |-> Crash(w), ret |-> NULL]
    ELSE IF w.m_mapped = NULL
         THEN LET m == vmaMapMemory(w, w.m_allocation, ok, p, ub)
              IN IF ~m.ok
                 THEN [w |-> [m.w EXCEPT !.m_mapped = p], ret |-> NULL]
                 ELSE [w |-> [m.w EXCEPT !.m_mapped = m.ptr], ret |-> m.ptr]
         ELSE [w |-> w, ret |-> w.m_mapped]

\* void* RHI_IndexBuffer::Map(): [w, ret].  SP_ASSERT(m_allocation != nullptr)
\* aborts the process; with assertions compiled out vmaMapMemory dereferences
\* the null allocation, which ends the process as well.
Map(w, ok, p, ub) ==
    IF ~w.m_is_mappable
    THEN [w |-> w, ret |-> NULL]
    ELSE IF w.m_allocation = NULL
    THEN [w |-> Crash(w), ret |-> NULL]
    ELSE IF w.m_mapped = NULL
         THEN LET m == vmaMapMemory(w, w.m_allocation, ok, p, ub)
              IN IF ~m.ok
                 THEN [w |-> m.w, ret |-> NULL]
                 ELSE [w |-> [m.w EXCEPT !.m_mapped = m.ptr], ret |-> m.ptr]
         ELSE [w |-> w, ret |-> w.m_mapped]

\* Unmap that releases the mapping but keeps the cached pointer.
Unmap_KeepsPointer(w, ok, ub) ==
    IF ~w.m_is_mappable
    THEN [w |-> w, ret |-> FALSE]
    ELSE IF w.m_allocation = NULL
    THEN [w |-> w, ret |-> FALSE]
    ELSE IF w.m_persistent_mapping
         THEN LET f == vmaFlushAllocation(w, w.m_allocation, 0,
                                          w.m_object_size_gpu, ok, ub)
              IN [w |-> f.w, ret |-> f.ok]
         ELSE IF w.m_mapped # NULL
              THEN [w   |-> vmaUnmapMemory(w, w.m_allocation, ub),
                    ret |-> TRUE]
              ELSE [w |-> w, ret |-> TRUE]

\* Unmap that does not look at the result of the flush.
Unmap_IgnoresFlushResult(w, ok, ub) ==
    IF ~w.m_is_mappable
    THEN [w |-> w, ret |-> FALSE]
    ELSE IF w.m_allocation = NULL
    THEN [w |-> w, ret |-> FALSE]
    ELSE IF w.m_persistent_mapping
         THEN LET f == vmaFlushAllocation(w, w.m_allocation, 0,
                                          w.m_object_size_gpu, ok, ub)
              IN [w |-> f.w, ret |-> TRUE]
         ELSE IF w.m_mapped # NULL
              THEN [w   |-> [vmaUnmapMemory(w, w.m_allocation, ub)
                                EXCEPT !.m_mapped = NULL],
                    ret |-> TRUE]
              ELSE [w |-> w, ret |-> TRUE]

\* bool RHI_IndexBuffer::Unmap(): [w, ret].
Unmap(w, ok, ub) ==
    IF ~w.m_is_mappable
    THEN [w |-> w, ret |-> FALSE]
    ELSE IF w.m_allocation = NULL
    THEN [w |-> w, ret |-> FALSE]
    ELSE IF w.m_persistent_mapping
         THEN LET f == vmaFlushAllocation(w, w.m_allocation, 0,
                                          w.m_object_size_gpu, ok, ub)
              IN [w |-> f.w, ret |-> f.ok]
         ELSE IF w.m_mapped # NULL
              THEN [w   |-> [vmaUnmapMemory(w, w.m_allocation, ub)
                                EXCEPT !.m_mapped = NULL],
                    ret |-> TRUE]
              ELSE [w |-> w, ret |-> TRUE]

----------------------------------------------------------------------------
\* The fields of the object in world w.
Fields(w) ==
    [ m_resource |-> w.m_resource, m_allocation |-> w.m_allocation,
      m_mapped |-> w.m_mapped, m_is_mappable |-> w.m_is_mappable,
      m_persistent_mapping |-> w.m_persistent_mapping,
      m_object_size_gpu |-> w.m_object_size_gpu ]

\* What a handler started from.
Snapshot(w, arg) ==
    [ fields |-> Fields(w), live |-> w.live, lastOp |-> lastOp,
      retPtr |-> retPtr, arg |-> arg ]

\* The state after handler op, called with argument arg (NULL when it takes
\* none), has run from world w0 and ended in world w.
\* A handler that aborted the process leaves no state behind but the calls
\* it made.
Commit(op, arg, w0, w, rb, rp) ==
    /\ lastOp' = op
    /\ pre' = Snapshot(w0, arg)
    /\ log' = w.log
    /\ crashed' = w.crashed
    /\ IF w.crashed
       THEN UNCHANGED << m_resource, m_allocation, m_mapped, m_is_mappable,
                         m_persistent_mapping, m_object_size_gpu,
                         live, freed, mapCount, populated, bufInfo, pending,
                         nextId, retBool, retPtr >>
       ELSE /\ m_resource' = w.m_resource
            /\ m_allocation' = w.m_allocation
            /\ m_mapped' = w.m_mapped
            /\ m_is_mappable' = w.m_is_mappable
            /\ m_persistent_mapping' = w.m_persistent_mapping
            /\ m_object_size_gpu' = w.m_object_size_gpu
            /\ live' = w.live
            /\ freed' = w.freed
            /\ mapCount' = w.mapCount
            /\ populated' = w.populated
            /\ bufInfo' = w.bufInfo
            /\ pending' = w.pending
            /\ nextId' = w.nextId
            /\ retBool' = rb
            /\ retPtr' = rp

Init ==
    /\ m_resource = NULL
    /\ m_allocation = NULL
    /\ m_mapped = NULL
    /\ m_is_mappable \in BOOLEAN
    /\ m_persistent_mapping \in BOOLEAN
    /\ m_object_size_gpu = 0
    /\ live = {}
    /\ freed = {}
    /\ mapCount = [h \in Handles |-> 0]
    /\ populated = {}
    /\ bufInfo = [h \in Handles |-> NoInfo]
    /\ pending = FALSE
    /\ nextId = 1
    /\ lastOp = "none"
    /\ retBool = FALSE
    /\ retPtr = NULL
    /\ log = << >>
    /\ pre = [ fields |-> [ m_resource |-> NULL, m_allocation |-> NULL,
                            m_mapped |-> NULL, m_is_mappable |-> m_is_mappable,
                            m_persistent_mapping |-> m_persistent_mapping,
                            m_object_size_gpu |-> 0 ],
               live |-> {}, lastOp |-> "none", retPtr |-> NULL, arg |-> NULL ]
    /\ crashed = FALSE

\* The outcomes of a use after free are inputs only where one can happen:
\* the handlers pass no allocation but m_allocation to map, unmap and flush.
UBInputs == IF m_allocation \in live THEN {"proceed"} ELSE UBOutcomes

\* Create(indices, count) / CreateDynamic(count): set the size, then _create.
\* indices is NULL or a pointer to the caller's data (1).
Create ==
    \E indices \in {NULL, 1}, size \in Sizes, ok1 \in BOOLEAN, ub \in UBInputs :
      \E ok2 \in (IF indices # NULL /\ ok1 THEN BOOLEAN ELSE {TRUE}) :
        /\ ~crashed
        /\ nextId + (IF indices = NULL THEN 0 ELSE 1) <= MaxHandles
        /\ LET w0 == World
               r  == _create([w0 EXCEPT !.m_object_size_gpu = size],
                             indices, ok1, ok2, ub)
           IN Commit("Create", indices, w0, r.w, r.ret, retPtr)

\* The destroy call of the interface (the destructor runs _destroy).
Destroy ==
    \E ub \in UBInputs :
        /\ ~crashed
        /\ LET w0 == World
           IN Commit("Destroy", NULL, w0, _destroy(w0, ub), retBool, retPtr)

CallMap ==
    \E ok \in BOOLEAN, ub \in UBInputs :
      \E p \in (IF ok THEN Pointers ELSE {1}) :
        /\ ~crashed
        /\ LET w0 == World
               r  == Map(w0, ok, p, ub)
           IN Commit("Map", NULL, w0, r.w, retBool, r.ret)

CallUnmap ==
    \E ok \in BOOLEAN, ub \in UBInputs :
        /\ ~crashed
        /\ LET w0 == World
               r  == Unmap(w0, ok, ub)
           IN Commit("Unmap", NULL, w0, r.w, r.ret, retPtr)

\* The rest of the engine submits work to a queue of the device.
SubmitWork ==
    /\ ~crashed
    /\ ~pending
    /\ pending' = TRUE
    /\ UNCHANGED << m_resource, m_allocation, m_mapped, m_is_mappable,
                    m_persistent_mapping, m_object_size_gpu,
                    live, freed, mapCount, populated, bufInfo, nextId,
                    lastOp, retBool, retPtr, log, pre, crashed >>

\* The device finishes the work submitted to it.
QueueIdle ==
    /\ ~crashed
    /\ pending
    /\ pending' = FALSE
    /\ UNCHANGED << m_resource, m_allocation, m_mapped, m_is_mappable,
                    m_persistent_mapping, m_object_size_gpu,
                    live, freed, mapCount, populated, bufInfo, nextId,
                    lastOp, retBool, retPtr, log, pre, crashed >>

Next ==
    \/ Create
    \/ Destroy
    \/ CallMap
    \/ CallUnmap
    \/ SubmitWork
    \/ QueueIdle

Spec == Init /\ [][Next]_vars

----------------------------------------------------------------------------
\* Properties.  They speak of the last handler that ran: lastOp, its result,
\* the device calls in log and the state pre it started from.

OpsOf(l)     == [i \in DOMAIN l |-> l[i].op]
Calls(op)    == {i \in DOMAIN log : log[i].op = op}
Releases     == {"vmaUnmapMemory", "vmaDestroyBuffer"}
NowFields    == Fields(World)

\* C1: in every Destroy, explicit or at the start of Create, with or without
\* a resource, QueueWaitAll is the first device call; every unmap and every
\* free comes after it, and none is made while submitted device work is
\* outstanding.
C1_WaitBeforeRelease ==
    lastOp \in {"Destroy", "Create"} =>
        /\ Len(log) >= 1
        /\ log[1].op = "QueueWaitAll"
        /\ \A i \in DOMAIN log :
               log[i].op \in Releases => (i > 1 /\ ~log[i].busy)

\* C1 witness: a Create on a mapped resource while device work was
\* outstanding; the implicit Destroy waited, unmapped and freed the buffer.
C1_Witness ==
    /\ lastOp = "Create"
    /\ ~crashed
    /\ log[1].op = "QueueWaitAll" /\ log[1].busy
    /\ Calls("vmaUnmapMemory") # {}
    /\ \E i \in Calls("vmaDestroyBuffer") : log[i].h = pre.fields.m_resource

\* C2: between operations m_resource and m_allocation are both null or both
\* valid (the live buffer and its allocation).
C2_HandlesPaired ==
    ~crashed =>
        \/ m_resource = NULL /\ m_allocation = NULL
        \/ m_resource \in live /\ m_allocation = m_resource

\* Staging buffers the last handler created.
StagingCreated ==
    {log[i].h : i \in {j \in Calls("buffer_create") :
                          log[j].usage = {"TRANSFER_SRC"} /\ log[j].h # NULL}}

\* C3: a staged Create whose destination allocation fails destroys the
\* staging buffer before it reports failure.
C3_StagingFreedOnFailure ==
    (lastOp = "Create" /\ ~crashed /\ ~retBool) =>
        \A h \in StagingCreated : h \notin live

\* C4: a failed Create leaves m_resource, m_allocation and m_mapped null,
\* and the Destroy that follows frees nothing that was already freed.
C4_FailedCreateClean ==
    /\ (lastOp = "Create" /\ ~crashed /\ ~retBool) =>
           (m_resource = NULL /\ m_allocation = NULL /\ m_mapped = NULL)
    /\ (lastOp = "Destroy") =>
           \A i \in Calls("vmaDestroyBuffer") : ~log[i].stale

\* C5: m_mapped is non-null only if m_is_mappable.
C5_MappedOnlyIfMappable ==
    m_mapped # NULL => m_is_mappable

\* C5 witness: a mapped mappable resource was re-created with source data.
C5_Witness ==
    /\ lastOp = "Create" /\ ~crashed /\ retBool
    /\ pre.fields.m_is_mappable /\ pre.fields.m_mapped # NULL
    /\ pre.fields.m_allocation \in pre.live
    /\ ~m_is_mappable /\ m_mapped = NULL

\* C6: Destroy on an object never created, and Destroy right after Destroy,
\* changes no field, leaves the object without a resource, unmaps nothing
\* and hands no buffer to the device to destroy.
C6_DestroyIdempotent ==
    (lastOp = "Destroy"
        /\ (pre.fields.m_object_size_gpu = 0 \/ pre.lastOp = "Destroy")) =>
        /\ ~crashed
        /\ NowFields = pre.fields
        /\ m_resource = NULL /\ m_mapped = NULL
        /\ OpsOf(log) = << "QueueWaitAll" >>
        /\ live = pre.live

\* C6 witness: a second Destroy after one that freed a buffer.
C6_Witness ==
    /\ lastOp = "Destroy" /\ pre.lastOp = "Destroy"
    /\ freed # {}
    /\ pre.fields.m_object_size_gpu # 0

\* C7: Unmap on a resource that is not mappable or has no allocation (never
\* created, or destroyed) returns false and calls neither flush nor unmap.
C7_UnmapRejects ==
    (lastOp = "Unmap"
        /\ (~pre.fields.m_is_mappable \/ pre.fields.m_allocation \notin pre.live)) =>
        /\ ~crashed
        /\ retBool = FALSE
        /\ log = << >>

\* C8: a staged Create that succeeds has, after the Destroy steps, created
\* the staging buffer, created the destination, begun the recording,
\* recorded the copy of the whole buffer, ended the recording and only then
\* destroyed the staging buffer: the copy was complete at that point, and on
\* return the destination holds the data and the staging buffer of the call
\* is gone.
C8_StagedOrder ==
    (lastOp = "Create" /\ ~crashed /\ retBool /\ ~m_is_mappable) =>
        /\ Len(log) >= 8
        /\ LET k == Len(log) - 6
               s == log[k].h
           IN /\ \A i \in 1..(k - 1) : log[i].op \in {"QueueWaitAll"} \cup Releases
              /\ OpsOf(SubSeq(log, k, Len(log))) =
                    << "buffer_create", "buffer_create", "begin",
                       "vkCmdCopyBuffer", "end", "vmaDestroyBuffer", "set_name" >>
              /\ log[k].usage = {"TRANSFER_SRC"} /\ s # NULL
              /\ log[k + 1].h = m_resource
              /\ log[k + 3].src = s /\ log[k + 3].h = m_resource
              /\ log[k + 3].size = m_object_size_gpu
              /\ log[k + 5].h = s /\ ~log[k + 5].busy
              /\ s \notin live
              /\ m_resource \in populated

\* C8 witness: a staged Create succeeded.
C8_Witness ==
    /\ lastOp = "Create" /\ ~crashed /\ retBool /\ ~m_is_mappable
    /\ m_resource \in live
    /\ Calls("vkCmdCopyBuffer") # {}

\* C9: Map on a resource that is not mappable returns null, calls no device
\* primitive and changes no field.
C9_MapNonMappable ==
    (lastOp = "Map" /\ ~pre.fields.m_is_mappable) =>
        /\ ~crashed
        /\ retPtr = NULL
        /\ log = << >>
        /\ NowFields = pre.fields

\* C9 witness: Map was called on a live resource created with source data.
C9_Witness ==
    /\ lastOp = "Map"
    /\ ~pre.fields.m_is_mappable
    /\ pre.fields.m_resource \in pre.live
    /\ pre.fields.m_resource \in populated

\* C10: a Map right after a successful Map returns the same pointer and does
\* not call vmaMapMemory.
C10_MapIdempotent ==
    (lastOp = "Map" /\ pre.lastOp = "Map" /\ pre.retPtr # NULL) =>
        /\ ~crashed
        /\ retPtr = pre.retPtr
        /\ m_mapped = pre.retPtr
        /\ log = << >>

\* C10 witness: two successful Map calls in a row on a live mappable buffer.
C10_Witness ==
    /\ lastOp = "Map" /\ pre.lastOp = "Map"
    /\ pre.retPtr # NULL /\ retPtr # NULL
    /\ m_is_mappable /\ m_allocation \in live

\* The handler started on a mappable resource: m_is_mappable, with a live
\* allocation.
PreMappable ==
    /\ pre.fields.m_is_mappable
    /\ pre.fields.m_allocation \in pre.live

\* C11: without persistent mapping, Unmap of a mapped mappable resource
\* calls vmaUnmapMemory once, on its allocation, and clears m_mapped, so
\* that the Map after it calls vmaMapMemory again; Unmap with nothing mapped
\* calls no device primitive and changes no field.  Both return true.
C11_UnmapNonPersistent ==
    /\ (lastOp = "Unmap" /\ PreMappable /\ ~m_persistent_mapping) =>
          /\ ~crashed
          /\ retBool
          /\ m_mapped = NULL
          /\ mapCount[m_allocation] = 0
          /\ IF pre.fields.m_mapped # NULL
             THEN /\ OpsOf(log) = << "vmaUnmapMemory" >>
                  /\ log[1].h = pre.fields.m_allocation
                  /\ log[1].maps = 1
                  /\ NowFields = [pre.fields EXCEPT !.m_mapped = NULL]
             ELSE /\ log = << >>
                  /\ NowFields = pre.fields
    /\ (lastOp = "Map" /\ pre.lastOp = "Unmap" /\ PreMappable
           /\ ~m_persistent_mapping) =>
          /\ OpsOf(log) = << "vmaMapMemory" >>
          /\ log[1].h = pre.fields.m_allocation

\* C11 witness: a non-persistent Unmap released an active mapping.
C11_Witness ==
    /\ lastOp = "Unmap" /\ PreMappable /\ ~m_persistent_mapping
    /\ pre.fields.m_mapped # NULL
    /\ Calls("vmaUnmapMemory") # {}

\* C12: with persistent mapping, Unmap of a mappable resource calls only
\* vmaFlushAllocation, over offset 0 and size m_object_size_gpu; it keeps
\* m_mapped and every other field, and returns what the flush returned.
C12_UnmapPersistent ==
    (lastOp = "Unmap" /\ PreMappable /\ m_persistent_mapping) =>
        /\ ~crashed
        /\ OpsOf(log) = << "vmaFlushAllocation" >>
        /\ log[1].h = pre.fields.m_allocation
        /\ log[1].src = 0
        /\ log[1].size = m_object_size_gpu
        /\ retBool = log[1].ok
        /\ NowFields = pre.fields
        /\ mapCount[m_allocation] = log[1].maps

\* C12 witness: the flush failed while a persistent mapping was active.
C12_Witness ==
    /\ lastOp = "Unmap" /\ PreMappable /\ m_persistent_mapping
    /\ pre.fields.m_mapped # NULL
    /\ Len(log) = 1 /\ ~log[1].ok
    /\ ~retBool /\ m_mapped = pre.fields.m_mapped

\* C13: a Create that succeeds leaves m_is_mappable true when it was given
\* no source data and false when it was given some, whatever the size and
\* the state before; Map and Unmap do not change m_is_mappable.
C13_MappableIffNoData ==
    /\ (lastOp = "Create" /\ ~crashed /\ retBool) =>
          /\ m_is_mappable = (pre.arg = NULL)
          /\ m_object_size_gpu \in Sizes
    /\ (lastOp \in {"Map", "Unmap"}) =>
          m_is_mappable = pre.fields.m_is_mappable

\* C13 witness: a live mappable resource was re-created with source data.
C13_Witness ==
    /\ lastOp = "Create" /\ ~crashed /\ retBool
    /\ pre.arg # NULL
    /\ PreMappable
    /\ ~m_is_mappable

\* Live buffers created as the index buffer of the object (not as staging).
LiveIndexBuffers == {h \in live : "INDEX_BUFFER" \in bufInfo[h].usage}

\* First position of a call of op in the log (0 when there is none).
FirstCall(op) ==
    IF Calls(op) = {} THEN 0
    ELSE CHOOSE i \in Calls(op) : \A j \in Calls(op) : i <= j

\* C14: a Create on an object that holds a buffer waits for the device,
\* unmaps if mapped and frees the old buffer before it asks for any new
\* buffer; the old buffer is gone whether the Create succeeds or not, and
\* between operations at most one index buffer is live, the one m_resource
\* names.
C14_DestroyBeforeCreate ==
    /\ (lastOp = "Create" /\ pre.fields.m_resource # NULL) =>
          /\ ~crashed
          /\ log[1].op = "QueueWaitAll"
          /\ IF pre.fields.m_mapped # NULL
             THEN /\ Len(log) >= 3
                  /\ log[2].op = "vmaUnmapMemory"
                  /\ log[2].h = pre.fields.m_allocation
                  /\ log[3].op = "vmaDestroyBuffer"
                  /\ log[3].h = pre.fields.m_resource
             ELSE /\ Len(log) >= 2
                  /\ log[2].op = "vmaDestroyBuffer"
                  /\ log[2].h = pre.fields.m_resource
          /\ \A i \in Calls("buffer_create") : i > FirstCall("vmaDestroyBuffer")
          /\ pre.fields.m_resource \notin live
          /\ pre.fields.m_resource \in freed
    /\ ~crashed =>
          /\ LiveIndexBuffers \subseteq {m_resource}
          /\ Cardinality(LiveIndexBuffers) <= 1

\* C14 witness: a Create on an object holding a live buffer failed to
\* allocate; the old buffer was freed all the same.
C14_Witness ==
    /\ lastOp = "Create" /\ ~crashed /\ ~retBool
    /\ pre.fields.m_resource \in pre.live
    /\ pre.fields.m_resource \in freed
    /\ Calls("buffer_create") # {}

\* C15: a Destroy (explicit or at the start of Create) of a mapped resource
\* calls vmaUnmapMemory on its allocation and clears m_mapped before it frees
\* the buffer, with and without persistent mapping; no buffer is freed while
\* a host mapping of its allocation is outstanding.
C15_UnmapBeforeFree ==
    /\ (lastOp \in {"Destroy", "Create"} /\ pre.fields.m_mapped # NULL
           /\ pre.fields.m_allocation \in pre.live) =>
          /\ ~crashed
          /\ Len(log) >= 3
          /\ log[2].op = "vmaUnmapMemory"
          /\ log[2].h = pre.fields.m_allocation
          /\ log[2].maps = 1
          /\ log[3].op = "vmaDestroyBuffer"
          /\ log[3].h = pre.fields.m_resource
          /\ lastOp = "Destroy" => m_mapped = NULL
    /\ \A i \in Calls("vmaDestroyBuffer") : log[i].maps = 0
    /\ \A h \in Handles : h \notin live => mapCount[h] = 0

\* C15 witness: Destroy of a resource with an active persistent mapping.
C15_Witness ==
    /\ lastOp = "Destroy" /\ ~crashed
    /\ m_persistent_mapping
    /\ pre.fields.m_mapped # NULL
    /\ pre.fields.m_allocation \in pre.live
    /\ pre.fields.m_resource \in freed

\* The last handler called vmaMapMemory and the call failed.
MapFailed ==
    /\ lastOp = "Map" /\ ~crashed
    /\ Len(log) = 1 /\ log[1].op = "vmaMapMemory" /\ ~log[1].ok

\* C16: when vmaMapMemory fails, Map returns null and changes no field:
\* m_mapped stays null.  After a Map that returned null, the next Map of a
\* mappable resource calls vmaMapMemory again, and the next Unmap or Destroy
\* calls no vmaUnmapMemory.
C16_MapFailure ==
    /\ MapFailed =>
          /\ retPtr = NULL
          /\ m_mapped = NULL
          /\ NowFields = pre.fields
    /\ (lastOp = "Map" /\ pre.lastOp = "Map" /\ pre.retPtr = NULL
           /\ PreMappable) =>
          /\ OpsOf(log) = << "vmaMapMemory" >>
          /\ log[1].maps = 0
    /\ (lastOp \in {"Unmap", "Destroy"} /\ pre.lastOp = "Map"
           /\ pre.retPtr = NULL) =>
          Calls("vmaUnmapMemory") = {}

\* C16 witness: the first Map of a live mappable buffer failed in the device.
C16_Witness ==
    /\ MapFailed
    /\ PreMappable
    /\ pre.lastOp = "Create"

\* The memory properties _create asks for on the mappable path.
MappableProps ==
    {"HOST_VISIBLE"} \cup (IF m_persistent_mapping THEN {} ELSE {"HOST_COHERENT"})

\* C17: a mappable buffer is requested host-visible, and host-coherent
\* exactly when m_persistent_mapping is false; the staged destination is
\* requested device-local only.  Unmap of a mappable resource flushes
\* exactly when m_persistent_mapping is true, so after every Unmap that
\* returns true the buffer is host-coherent or was just flushed from offset
\* 0 over m_object_size_gpu bytes.
C17_ResidencyAndFlushAgree ==
    /\ \A i \in Calls("buffer_create") :
          /\ log[i].usage = {"INDEX_BUFFER"} => log[i].props = MappableProps
          /\ log[i].usage = {"TRANSFER_DST", "INDEX_BUFFER"} =>
                log[i].props = {"DEVICE_LOCAL"}
    /\ \A h \in LiveIndexBuffers :
          IF bufInfo[h].usage = {"INDEX_BUFFER"}
          THEN bufInfo[h].props = MappableProps
          ELSE bufInfo[h].props = {"DEVICE_LOCAL"}
    /\ (lastOp = "Unmap" /\ PreMappable) =>
          /\ (Calls("vmaFlushAllocation") # {}) = m_persistent_mapping
          /\ (~crashed /\ retBool) =>
                \/ "HOST_COHERENT" \in bufInfo[m_allocation].props
                \/ /\ OpsOf(log) = << "vmaFlushAllocation" >>
                   /\ log[1].h = m_allocation
                   /\ log[1].src = 0
                   /\ log[1].size = m_object_size_gpu
                   /\ log[1].ok

\* C17 witness: a successful Unmap of a live buffer that is not
\* host-coherent.
C17_Witness ==
    /\ lastOp = "Unmap" /\ ~crashed /\ retBool
    /\ PreMappable
    /\ "HOST_COHERENT" \notin bufInfo[m_allocation].props
    /\ "HOST_VISIBLE" \in bufInfo[m_allocation].props
    /\ Calls("vmaFlushAllocation") # {}

\* C18: no device primitive is ever called with a buffer or an allocation
\* that has already been freed.
C18_NoFreedHandlePassed ==
    \A i \in DOMAIN log : ~log[i].stale

\* Host mappings outstanding on the allocation m_allocation names.
Outstanding ==
    IF m_allocation \in live THEN mapCount[m_allocation] ELSE 0

\* C19: between operations one host mapping is outstanding on the object's
\* allocation when m_mapped is non-null and none when it is null;
\* vmaMapMemory is only called on an allocation without a mapping and
\* vmaUnmapMemory only on one with a mapping.
C19_MapsBalanced ==
    /\ ~crashed => Outstanding = (IF m_mapped # NULL THEN 1 ELSE 0)
    /\ \A i \in Calls("vmaMapMemory") : log[i].maps = 0
    /\ \A i \in Calls("vmaUnmapMemory") : log[i].maps = 1

====
